---- MODULE Spec2Model ----
(***************************************************************************)
(* Model of src/src/sendTransactions.js: main() loads the recipient list,  *)
(* schedules 10 sendTransaction tasks through a p-limit limiter of         *)
(* concurrency 3 with a sleep between schedulings, and awaits them all.    *)
(* One action is one run of the event loop: a callback together with every *)
(* microtask (promise continuation) it triggers.                           *)
(***************************************************************************)
EXTENDS Integers, Sequences, FiniteSets, TLC

\* ---------------------------------------------------------------- constants
\* for (let i = 0; i < 10; i++)
N == 10

\* const concurrencyLimit = 3;
concurrencyLimit == 3

\* const priorityFeeMicroLamports = 5000;
priorityFeeMicroLamports == 5000

\* lamports: 1000
lamports == 1000

\* const wallets = [wallet1, wallet2, wallet3];
wallets == <<"wallet1", "wallet2", "wallet3">>

\* ------------------------------------------------------------------- bounds
\* Network errors (anchor fetch or submission) injected in one run.
MaxFaults == 1

\* Rows of the files the loader is checked on.
MaxRows == 3

\* ------------------------------------------------------------------- inputs
\* The value of a missing property / out-of-range index in JavaScript.
Undefined == "<undefined>"

\* Base58 strings that decode to a 32-byte public key.
ValidAddresses == {"addrA", "addrB", "addrC", "addrD"}

\* recipients.csv as the sequence of the rows' `address` field.
CsvFiles ==
  { << >>,
    << Undefined, "" >>,
    << "addrA", "addrB", "addrC", "addrD" >>,
    << "addrA", "", "bogus", Undefined, "addrB" >>,
    << "bogus" >>,
    << "bogus", "addrC" >> }

\* What a row's `address` field can hold: nothing (no such column or a short
\* row), the empty string, or a non-empty string.
RowValues == {Undefined, "", "addrA", "bogus"}

\* Every file of at most MaxRows rows.
RowFiles == UNION {[1 .. n -> RowValues] : n \in 0 .. MaxRows}

\* What sendAndConfirmTransaction throws. The catch block treats every error
\* alike (it prints it), so one error stands for all of them: the expiry of the
\* anchor before confirmation.
SubmitErrors == {"TransactionExpiredBlockheightExceeded"}

\* What Node does with a rejected promise nobody handles: since Node 15 the
\* process dies with status 1, before that (or with --unhandled-rejections=warn)
\* it only warns.
UnhandledModes == {"throw", "warn"}

Tasks == 0 .. (N - 1)

NoAnchor == [blockhash |-> <<"none", -1>>, lastValidBlockHeight |-> <<"none", -1>>]

NoTx == [recentBlockhash |-> <<"none", -1>>]

Running == {"fetching", "sending"}

Fulfilled == {"ok", "failed", "skipped"}

Settled == Fulfilled \cup {"rejected"}

VARIABLES
  csvRows,          \* recipients.csv: the `address` field of each of its rows
  pc,               \* main(): "load", "sleep", "await_all", "done", "exited"
  recipients,       \* const recipients
  i,                \* the loop variable of main
  delays,           \* sleeps of main that have elapsed
  status,           \* task -> "unscheduled", "queued", Running or Settled
  payer,            \* task -> the payer bound in its closure
  recipientAddress, \* task -> the recipientAddress bound in its closure
  schedAt,          \* task -> value of delays when it was scheduled
  queue,            \* p-limit's queue of waiting tasks
  activeCount,      \* p-limit's count of running tasks
  blockhash,        \* task -> its local { blockhash, lastValidBlockHeight }
  submitted,        \* task -> the transaction handed to sendAndConfirmTransaction
  fetches,          \* task -> calls of connection.getLatestBlockhash
  submits,          \* task -> calls of sendAndConfirmTransaction
  log,              \* task -> what sendTransaction printed
  mainLog,          \* what main and its catch handler printed
  exitCode,         \* -1 while the process runs
  mode,             \* how this Node treats unhandled rejections
  faults            \* network errors so far

vars == << csvRows, pc, recipients, i, delays, status, payer, recipientAddress, schedAt,
           queue, activeCount, blockhash, submitted, fetches, submits, log,
           mainLog, exitCode, mode, faults >>

taskVars == << status, payer, recipientAddress, schedAt, queue, activeCount,
               blockhash, submitted, fetches, submits, log >>

\* ------------------------------------------------------------ pure helpers
\* only the rows without the field skipped: if (data.address !== undefined)
loadRecipientsKeepEmpty(rows) == SelectSeq(rows, LAMBDA a : a # Undefined)

\* if (data.address) results.push(data.address)
loadRecipients(rows) == SelectSeq(rows, LAMBDA a : a # Undefined /\ a # "")

\* no validation: every string is taken for an address
IsValidAddressAny(a) == TRUE

\* new PublicKey(recipientAddress) does not throw
IsValidAddress(a) == a \in ValidAddresses

\* recipients[(i + 1) % recipients.length]: an off-by-one cycle
RecipientForShifted(k, list) ==
  IF Len(list) = 0 THEN Undefined ELSE list[((k + 1) % Len(list)) + 1]

\* new PublicKey(address): the 32 bytes the Base58 string decodes to. Base58
\* is one-to-one, so the key is named by the string it came from.
PublicKey(a) == << "PublicKey", a >>

\* payer.publicKey: the public half of the wallet's keypair
publicKey(w) == << "PublicKey", "of", w >>

\* wallets[i % wallets.length]
PayerFor(k) == wallets[(k % Len(wallets)) + 1]

\* recipients[i % recipients.length]  (x % 0 is NaN, and list[NaN] undefined)
RecipientFor(k, list) ==
  IF Len(list) = 0 THEN Undefined ELSE list[(k % Len(list)) + 1]

\* the empty-list check left out
NoRecipientsUnchecked(list) == FALSE

\* recipients.length === 0
NoRecipients(list) == Len(list) = 0

\* the fetch not awaited: the destructured fields are undefined
FetchResponseMissing(t) == NoAnchor

\* the response of getLatestBlockhash to the request of task t
FetchResponse(t) ==
  [blockhash |-> <<"hash", t>>, lastValidBlockHeight |-> <<"height", t>>]

\* the anchor kept in a module-level cache filled by the first task
BuildTransactionCached(anchor, from, to, fee) ==
  LET cached == IF blockhash[0] # NoAnchor THEN blockhash[0] ELSE anchor
  IN  [recentBlockhash |-> cached.blockhash,
       lastValidBlockHeight |-> cached.lastValidBlockHeight,
       instructions |-> << [program |-> "ComputeBudget", microLamports |-> fee],
                           [program |-> "System.transfer", fromPubkey |-> publicKey(from),
                            toPubkey |-> to, lamports |-> lamports] >>,
       signers |-> {from}]

\* the priority-fee instruction never added
BuildTransactionNoFee(anchor, from, to, fee) ==
  [recentBlockhash |-> anchor.blockhash,
   lastValidBlockHeight |-> anchor.lastValidBlockHeight,
   instructions |-> << [program |-> "System.transfer", fromPubkey |-> publicKey(from),
                        toPubkey |-> to, lamports |-> lamports] >>,
   signers |-> {from}]

\* new Transaction({recentBlockhash, lastValidBlockHeight}) plus the two add()s
BuildTransaction(anchor, from, to, fee) ==
  [recentBlockhash |-> anchor.blockhash,
   lastValidBlockHeight |-> anchor.lastValidBlockHeight,
   instructions |-> << [program |-> "ComputeBudget", microLamports |-> fee],
                       [program |-> "System.transfer", fromPubkey |-> publicKey(from),
                        toPubkey |-> to, lamports |-> lamports] >>,
   signers |-> {from}]

\* an off-by-one limiter: one task too many may start
CanAdmitOneMore(active) == active <= concurrencyLimit

\* p-limit: a queued function may start
CanAdmit(active) == active < concurrencyLimit

\* the catch block retrying with a fresh blockhash
AfterSubmitErrorRetry == "fetching"

\* what the catch block of sendTransaction leaves the task in
AfterSubmitError == "failed"

\* main not waiting for the tasks
AllFulfilledNoWait(st) == TRUE

\* Promise.all(tasks) fulfils
AllFulfilled(st) == \A t \in Tasks : st[t] \in Fulfilled

\* Promise.all(tasks) rejects
AnyRejected(st) == \E t \in Tasks : st[t] = "rejected"

\* the loop awaiting the task it has just scheduled as well
MayScheduleNextAfterTask == pc = "sleep" /\ status[i] \in Settled

\* the loop waits for the sleep alone
MayScheduleNext == pc = "sleep"

\* ------------------------------------------------------------------- state
InitWith(files) ==
  /\ csvRows \in files
  /\ pc = "load"
  /\ recipients = << >>
  /\ i = 0
  /\ delays = 0
  /\ status = [t \in Tasks |-> "unscheduled"]
  /\ payer = [t \in Tasks |-> Undefined]
  /\ recipientAddress = [t \in Tasks |-> Undefined]
  /\ schedAt = [t \in Tasks |-> -1]
  /\ queue = << >>
  /\ activeCount = 0
  /\ blockhash = [t \in Tasks |-> NoAnchor]
  /\ submitted = [t \in Tasks |-> NoTx]
  /\ fetches = [t \in Tasks |-> 0]
  /\ submits = [t \in Tasks |-> 0]
  /\ log = [t \in Tasks |-> "none"]
  /\ mainLog = {}
  /\ exitCode = -1
  /\ mode \in UnhandledModes
  /\ faults = 0

Init == InitWith(CsvFiles)

\* ----------------------------------------------------------------- limiter
\* limit(() => sendTransaction(payer, recipientAddress, fee)) for task k, with
\* the closure's bindings taken from `list`: p-limit starts the function at
\* once when a slot is free (sendTransaction then runs up to its first await,
\* the call of getLatestBlockhash) and queues it otherwise.
ScheduleTask(k, list, d) ==
  LET admit == CanAdmit(activeCount)
  IN  /\ payer' = [payer EXCEPT ![k] = PayerFor(k)]
      /\ recipientAddress' = [recipientAddress EXCEPT ![k] = RecipientFor(k, list)]
      /\ schedAt' = [schedAt EXCEPT ![k] = d]
      /\ status' = [status EXCEPT ![k] = IF admit THEN "fetching" ELSE "queued"]
      /\ queue' = IF admit THEN queue ELSE Append(queue, k)
      /\ activeCount' = IF admit THEN activeCount + 1 ELSE activeCount
      /\ fetches' = IF admit THEN [fetches EXCEPT ![k] = @ + 1] ELSE fetches
      /\ UNCHANGED << blockhash, submitted, submits, log >>

\* next() forgetting to start the head of the queue
AfterSettleNoAdmit(t, outcome) == [status EXCEPT ![t] = outcome]

\* next() starting the task queued last
AfterSettleLast(t, outcome) ==
  LET st1 == [status EXCEPT ![t] = outcome]
  IN  IF Len(queue) > 0 THEN [st1 EXCEPT ![queue[Len(queue)]] = "fetching"] ELSE st1

\* The status of every task after task t settles with `outcome`: p-limit's
\* next() gives the slot of t to the head of the queue, if there is one.
AfterSettle(t, outcome) ==
  LET st1 == [status EXCEPT ![t] = outcome]
  IN  IF Len(queue) > 0 THEN [st1 EXCEPT ![Head(queue)] = "fetching"] ELSE st1

\* next() starting the head of the queue without taking it off the queue
ReleaseNoDequeue(t, outcome) ==
  /\ status' = AfterSettle(t, outcome)
  /\ queue' = queue
  /\ activeCount' = IF Len(queue) > 0 THEN activeCount ELSE activeCount - 1
  /\ fetches' = IF Len(queue) > 0
                THEN [fetches EXCEPT ![Head(queue)] = @ + 1] ELSE fetches

\* p-limit's next(): activeCount--, then the head of the queue is started.
Release(t, outcome) ==
  /\ status' = AfterSettle(t, outcome)
  /\ queue' = IF Len(queue) > 0 THEN Tail(queue) ELSE queue
  /\ activeCount' = IF Len(queue) > 0 THEN activeCount ELSE activeCount - 1
  /\ fetches' = IF Len(queue) > 0
                THEN [fetches EXCEPT ![Head(queue)] = @ + 1] ELSE fetches

\* ------------------------------------------------------------------- main
\* process.exit() without the failure status
ExitNoStatus(lines) ==
  /\ pc' = "exited"
  /\ exitCode' = 0
  /\ mainLog' = mainLog \cup lines

\* process.exit(1), or the death of the process on an unhandled rejection
Exit(lines) ==
  /\ pc' = "exited"
  /\ exitCode' = 1
  /\ mainLog' = mainLog \cup lines

\* await Promise.all(tasks), reached with the tasks in the states st
AwaitAll(st) ==
  IF AnyRejected(st)
  THEN Exit({"Error in main execution"})
  ELSE IF AllFulfilled(st)
  THEN /\ pc' = "done"
       /\ exitCode' = 0
       /\ mainLog' = mainLog \cup {"All transactions have been processed."}
  ELSE /\ pc' = "await_all"
       /\ UNCHANGED << exitCode, mainLog >>

\* What the settling of a task with `outcome` does to main.
MainReacts(st, outcome) ==
  IF pc = "await_all"
  THEN AwaitAll(st)
  ELSE IF outcome = "rejected" /\ mode = "throw"
  THEN Exit({})
  ELSE UNCHANGED << pc, exitCode, mainLog >>

\* loadRecipients resolves with the rows of `file`; main runs up to its first
\* sleep (or exits).
LoadOk(file) ==
  /\ pc = "load"
  /\ recipients' = loadRecipients(file)
  /\ IF NoRecipients(recipients')
     THEN /\ Exit({"Loaded", "No recipient addresses found. Exiting."})
          /\ UNCHANGED taskVars
     ELSE /\ ScheduleTask(0, recipients', delays)
          /\ pc' = "sleep"
          /\ mainLog' = mainLog \cup {"Loaded"}
          /\ UNCHANGED exitCode
  /\ UNCHANGED << csvRows, i, delays, mode, faults >>

\* loadRecipients rejects (the stream's "error" event); main().catch runs.
LoadFail ==
  /\ pc = "load"
  /\ Exit({"Error in main execution"})
  /\ UNCHANGED << csvRows, recipients, i, delays, mode, faults >>
  /\ UNCHANGED taskVars

\* The timer of sleep(sleepMs) fires: i++, and either the next iteration of
\* the loop up to its sleep, or Promise.all.
SleepDone ==
  /\ MayScheduleNext
  /\ delays' = delays + 1
  /\ i' = i + 1
  /\ IF i' < N
     THEN /\ ScheduleTask(i', recipients, delays')
          /\ UNCHANGED << pc, exitCode, mainLog >>
     ELSE /\ AwaitAll(status)
          /\ UNCHANGED taskVars
  /\ UNCHANGED << csvRows, recipients, mode, faults >>

\* --------------------------------------------------------- sendTransaction
\* getLatestBlockhash answers task t: the address is validated, and either the
\* task logs the skip and returns, or the transaction is built and handed to
\* sendAndConfirmTransaction.
FetchOk(t) ==
  /\ pc \in {"sleep", "await_all"}
  /\ status[t] = "fetching"
  /\ blockhash' = [blockhash EXCEPT ![t] = FetchResponse(t)]
  /\ IF IsValidAddress(recipientAddress[t])
     THEN /\ status' = [status EXCEPT ![t] = "sending"]
          /\ submitted' = [submitted EXCEPT ![t] =
                 BuildTransaction(blockhash'[t], payer[t],
                                  PublicKey(recipientAddress[t]),
                                  priorityFeeMicroLamports)]
          /\ submits' = [submits EXCEPT ![t] = @ + 1]
          /\ UNCHANGED << queue, activeCount, fetches, log, pc, exitCode, mainLog >>
     ELSE /\ log' = [log EXCEPT ![t] = "Invalid recipient address"]
          /\ Release(t, "skipped")
          /\ MainReacts(status', "skipped")
          /\ UNCHANGED << submitted, submits >>
  /\ UNCHANGED << csvRows, recipients, i, delays, payer, recipientAddress, schedAt, mode, faults >>

\* getLatestBlockhash rejects: the await throws outside every try block, so
\* the promise of sendTransaction, and with it the promise limit() returned,
\* rejects.
FetchFail(t) ==
  /\ pc \in {"sleep", "await_all"}
  /\ status[t] = "fetching"
  /\ faults < MaxFaults
  /\ faults' = faults + 1
  /\ Release(t, "rejected")
  /\ MainReacts(status', "rejected")
  /\ UNCHANGED << csvRows, recipients, i, delays, payer, recipientAddress, schedAt,
                  blockhash, submitted, submits, log, mode >>

\* sendAndConfirmTransaction resolves with a signature.
SendOk(t) ==
  /\ pc \in {"sleep", "await_all"}
  /\ status[t] = "sending"
  /\ log' = [log EXCEPT ![t] = "confirmed"]
  /\ Release(t, "ok")
  /\ MainReacts(status', "ok")
  /\ UNCHANGED << csvRows, recipients, i, delays, payer, recipientAddress, schedAt,
                  blockhash, submitted, submits, mode, faults >>

\* sendAndConfirmTransaction throws err; the catch block logs it.
SendFail(t, err) ==
  /\ pc \in {"sleep", "await_all"}
  /\ status[t] = "sending"
  /\ faults < MaxFaults
  /\ faults' = faults + 1
  /\ log' = [log EXCEPT ![t] = "Error sending transaction: " \o err]
  /\ Release(t, AfterSubmitError)
  /\ MainReacts(status', AfterSubmitError)
  /\ UNCHANGED << csvRows, recipients, i, delays, payer, recipientAddress, schedAt,
                  blockhash, submitted, submits, mode >>

Next ==
  \/ LoadOk(csvRows)
  \/ LoadFail
  \/ SleepDone
  \/ \E t \in Tasks : FetchOk(t)
  \/ \E t \in Tasks : FetchFail(t)
  \/ \E t \in Tasks : SendOk(t)
  \/ \E t \in Tasks : \E err \in SubmitErrors : SendFail(t, err)

Spec == Init /\ [][Next]_vars

\* loadRecipients on its own: any file of at most MaxRows rows is loaded.
LoadInit == InitWith(RowFiles)

LoadSpec == LoadInit /\ [][LoadOk(csvRows)]_vars

TypeOK ==
  /\ pc \in {"load", "sleep", "await_all", "done", "exited"}
  /\ i \in 0 .. N
  /\ delays \in 0 .. N
  /\ status \in [Tasks -> {"unscheduled", "queued"} \cup Running \cup Settled]
  /\ activeCount \in 0 .. concurrencyLimit
  /\ exitCode \in {-1, 0, 1}
  /\ faults \in 0 .. MaxFaults

\* ================================================================== claims
InFlight == {t \in Tasks : status[t] \in Running}

Scheduled == {t \in Tasks : status[t] # "unscheduled"}

\* C1: the tasks admitted by the limiter and not yet completed are never more
\* than concurrencyLimit (3), whatever the timing of completions.
C1_ConcurrencyBound ==
  /\ Cardinality(InFlight) <= concurrencyLimit
  /\ activeCount <= concurrencyLimit

\* three tasks in flight and a later one waiting in the queue
C1_Witness ==
  /\ Cardinality(InFlight) = concurrencyLimit
  /\ \E t \in Tasks : status[t] = "queued"

\* C2 (as claimed): whatever way a task fails, every other task is scheduled
\* and the loop waits for it: once main has ended after loading a non-empty
\* list, all N tasks have been scheduled and have completed.
C2_AllTasksSurviveFailure ==
  (pc \in {"done", "exited"} /\ Len(recipients) > 0)
     => \A j \in Tasks : status[j] \in Settled

\* C3 (as claimed): no error of a network operation escapes sendTransaction:
\* no task's promise rejects, and the process fails only before any task was
\* scheduled.
C3_NoErrorEscapes ==
  /\ \A t \in Tasks : status[t] # "rejected"
  /\ exitCode = 1 => Scheduled = {}

\* C4: task t is bound to wallets[t mod 3] and recipients[t mod R] from its
\* scheduling on, whatever happens to it later; with R = 4 task 0 has wallet 0
\* and recipient 0, task 3 wallet 0 and recipient 3, task 4 wallet 1 and
\* recipient 0.
C4_RoundRobinBinding ==
  /\ \A t \in Scheduled :
       /\ payer[t] = wallets[(t % 3) + 1]
       /\ recipientAddress[t] = recipients[(t % Len(recipients)) + 1]
  /\ (recipients = << "addrA", "addrB", "addrC", "addrD" >>) =>
       /\ 0 \in Scheduled => payer[0] = "wallet1" /\ recipientAddress[0] = "addrA"
       /\ 3 \in Scheduled => payer[3] = "wallet1" /\ recipientAddress[3] = "addrD"
       /\ 4 \in Scheduled => payer[4] = "wallet2" /\ recipientAddress[4] = "addrA"

\* four recipients, tasks 0, 3 and 4 completed out of order
C4_Witness ==
  /\ Len(recipients) = 4
  /\ status[4] = "ok"
  /\ status[3] = "sending"
  /\ status[0] = "ok"

\* C5: with an empty recipient list main exits at once with status 1: no task
\* is scheduled, no anchor fetched, no transaction submitted.
C5_EmptyListFailsFast ==
  (pc # "load" /\ Len(recipients) = 0) =>
     /\ pc = "exited"
     /\ exitCode = 1
     /\ Scheduled = {}
     /\ \A t \in Tasks : fetches[t] = 0 /\ submits[t] = 0 /\ submitted[t] = NoTx

\* the list was loaded, found empty and reported
C5_Witness ==
  /\ pc = "exited"
  /\ "No recipient addresses found. Exiting." \in mainLog

\* C6: a task whose address failed validation has submitted nothing, has logged
\* the skip and has completed normally; it holds no slot and makes nobody wait,
\* and it never makes the process fail.
C6_InvalidAddressSkipped ==
  /\ \A t \in Tasks :
       (blockhash[t] # NoAnchor /\ recipientAddress[t] \notin ValidAddresses) =>
          /\ submits[t] = 0
          /\ submitted[t] = NoTx
          /\ log[t] = "Invalid recipient address"
          /\ status[t] = "skipped"
  /\ \A t \in Tasks : status[t] = "queued" => Cardinality(InFlight) = concurrencyLimit
  /\ exitCode = 1 => (Len(recipients) = 0 \/ \E t \in Tasks : status[t] = "rejected")

\* a skipped task, and the run completed by the others
C6_Witness ==
  /\ pc = "done"
  /\ \E t \in Tasks : status[t] = "skipped"
  /\ \E t \in Tasks : status[t] = "ok"

\* C7: main returns normally only when all N tasks have been scheduled and
\* every one has completed; none is queued or in flight then.
C7_ReturnsAfterAll ==
  (pc = "done" \/ "All transactions have been processed." \in mainLog) =>
     /\ i = N
     /\ Scheduled = Tasks
     /\ \A t \in Tasks : status[t] \in Settled
     /\ queue = << >>
     /\ activeCount = 0

\* main has returned; the last task to complete was not the last scheduled
C7_Witness ==
  /\ pc = "done"
  /\ \E t \in Tasks : status[t] = "failed"

\* C8: tasks are scheduled in index order, task t after exactly t sleeps; the
\* next scheduling waits for the sleep alone, never for a task.
C8_PacedScheduling ==
  /\ \A t \in Scheduled : schedAt[t] = t /\ \A s \in 0 .. t : s \in Scheduled
  /\ pc = "sleep" => (delays = i /\ Scheduled = 0 .. i /\ ENABLED SleepDone)

\* the last task scheduled after 9 sleeps while the first is still in flight
C8_Witness ==
  /\ schedAt[N - 1] = N - 1
  /\ status[0] = "fetching"
  /\ status[N - 1] = "queued"

\* C9: a submitted transaction carries the anchor its own task fetched after it
\* started, and no anchor fetched by another task.
C9_OwnFreshAnchor ==
  /\ \A t \in Tasks : blockhash[t] # NoAnchor =>
        /\ status[t] \notin {"unscheduled", "queued"}
        /\ fetches[t] >= 1
  /\ \A t \in Tasks : submitted[t] # NoTx =>
        /\ blockhash[t] # NoAnchor
        /\ submitted[t].recentBlockhash = blockhash[t].blockhash
        /\ submitted[t].lastValidBlockHeight = blockhash[t].lastValidBlockHeight
        /\ \A u \in Tasks \ {t} :
              submitted[t].recentBlockhash # blockhash[u].blockhash

\* two tasks submitting concurrently, each with an anchor of its own
C9_Witness ==
  /\ status[0] = "sending"
  /\ status[1] = "sending"
  /\ submitted[1] # NoTx

\* C10: no task is retried: each makes at most one anchor fetch and at most one
\* submission, a failed one too.
C10_NoRetry ==
  /\ \A t \in Tasks : fetches[t] <= 1 /\ submits[t] <= 1
  /\ \A t \in Tasks : status[t] = "failed" => (fetches[t] = 1 /\ submits[t] = 1)
  /\ Cardinality({t \in Tasks : submitted[t] # NoTx}) <= N

\* a submission failed on an expired anchor and the run went on to its end
C10_Witness ==
  /\ pc = "done"
  /\ \E t \in Tasks :
       /\ status[t] = "failed"
       /\ log[t] = "Error sending transaction: TransactionExpiredBlockheightExceeded"

\* C11: the limiter is work-conserving: when a running task completes while
\* tasks are queued, the head of the queue is admitted in that very step, and
\* no task is left queued while fewer than concurrencyLimit tasks are in flight.
C11_WorkConserving ==
  [][ /\ \A t \in Tasks :
           (status[t] \in Running /\ status'[t] \in Settled /\ Len(queue) > 0) =>
              /\ status[Head(queue)] = "queued"
              /\ status'[Head(queue)] = "fetching"
              /\ queue' = Tail(queue)
      /\ \A t \in Tasks :
           status'[t] = "queued" =>
              Cardinality({u \in Tasks : status'[u] \in Running}) = concurrencyLimit
    ]_vars

\* a queued task has been admitted on the completion of an earlier one
C11_Witness ==
  /\ status[3] = "fetching"
  /\ status[1] = "ok"
  /\ status[0] \in Running
  /\ status[2] \in Running
  /\ Len(queue) > 0

\* C12 (as claimed): no scheduled task is ever dropped: when the process has
\* ended, every task that was scheduled has reached completion.
C12_NoTaskDropped ==
  pc \in {"done", "exited"} => \A t \in Scheduled : status[t] \in Settled

\* C13: a submitted transaction has exactly two instructions, the priority fee
\* of 5000 and a transfer of 1000 from the task's wallet to the task's
\* recipient, and is signed by that wallet alone.
C13_TransactionContents ==
  \A t \in Tasks : submitted[t] # NoTx =>
     LET tx == submitted[t]
         w  == wallets[(t % 3) + 1]
         r  == recipients[(t % Len(recipients)) + 1]
     IN  /\ Len(tx.instructions) = 2
         /\ tx.instructions[1] = [program |-> "ComputeBudget", microLamports |-> 5000]
         /\ tx.instructions[2].program = "System.transfer"
         /\ tx.instructions[2].lamports = 1000
         /\ tx.instructions[2].fromPubkey = << "PublicKey", "of", w >>
         /\ tx.instructions[2].toPubkey = << "PublicKey", r >>
         /\ tx.signers = {w}

\* task 4 (second wallet, first recipient again) has submitted its transaction
C13_Witness ==
  /\ Len(recipients) = 4
  /\ submitted[4] # NoTx
  /\ status[4] = "sending"

KeptRows == {j \in 1 .. Len(csvRows) : csvRows[j] # Undefined /\ csvRows[j] # ""}

\* C15: loadRecipients returns exactly the non-empty address values of the
\* rows, in row order: the k-th recipient is the value of the k-th kept row.
C15_LoadKeepsNonEmptyInOrder ==
  "Loaded" \in mainLog =>
     /\ Len(recipients) = Cardinality(KeptRows)
     /\ \A j \in KeptRows :
          recipients[Cardinality({m \in KeptRows : m <= j})] = csvRows[j]

\* a file with a skipped row between two kept ones, the same value twice
C15_Witness ==
  /\ "Loaded" \in mainLog
  /\ Len(csvRows) = 3
  /\ csvRows[2] \in {Undefined, ""}
  /\ recipients = << "addrA", "addrA" >>

\* C16: the limiter admits tasks in the order they were scheduled: a task has
\* started only if every task of lower index has, and the queue holds the
\* waiting tasks in index order.
C16_FifoAdmission ==
  /\ \A a, b \in Tasks :
        (a < b /\ status[b] \notin {"unscheduled", "queued"})
           => status[a] \notin {"unscheduled", "queued"}
  /\ \A k \in 1 .. Len(queue) - 1 : queue[k] < queue[k + 1]

\* task 3 admitted from a queue of two, tasks 1 and 2 having completed before 0
C16_Witness ==
  /\ status[0] = "fetching"
  /\ status[1] \in Settled
  /\ status[2] \in Settled
  /\ status[3] \in Running
  /\ status[4] \in Running
  /\ status[5] = "queued"

\* C17: in each task the anchor is fetched, then the address validated, then
\* the transaction submitted: a submission follows one answered fetch and a
\* valid address, and a task skipped for its address has made its one fetch.
C17_StepOrder ==
  \A t \in Tasks :
     /\ submits[t] >= 1 =>
          /\ fetches[t] = 1
          /\ blockhash[t] # NoAnchor
          /\ submitted[t].recentBlockhash # NoAnchor.blockhash
          /\ recipientAddress[t] \in ValidAddresses
     /\ status[t] \in {"sending", "ok", "failed"} => submits[t] = 1
     /\ (status[t] = "skipped" \/ log[t] = "Invalid recipient address") =>
          /\ fetches[t] = 1
          /\ blockhash[t] # NoAnchor
          /\ submits[t] = 0
     /\ status[t] = "fetching" => (fetches[t] = 1 /\ blockhash[t] = NoAnchor /\ submits[t] = 0)

\* a task with an invalid address holds a slot for its fetch while another waits
C17_Witness ==
  \E t \in Tasks :
     /\ recipientAddress[t] = "bogus"
     /\ status[t] = "fetching"
     /\ Cardinality(InFlight) = concurrencyLimit
     /\ Len(queue) > 0
     /\ \E u \in Tasks : status[u] = "skipped"

\* The tasks main has scheduled, by its own loop variable.
ScheduledByLoop ==
  IF pc = "load" \/ Len(recipients) = 0 THEN 0 ELSE IF i < N THEN i + 1 ELSE N

\* C18: the bookkeeping is conserved: scheduled = queued + in flight +
\* completed, with the limiter's queue and counter agreeing with the tasks; no
\* task is scheduled, admitted or completed twice; a task is queued only while
\* concurrencyLimit tasks are in flight; at normal return all N are completed.
C18_Bookkeeping ==
  [][ /\ Len(queue') = Cardinality({t \in Tasks : status'[t] = "queued"})
      /\ \A k \in 1 .. Len(queue') : status'[queue'[k]] = "queued"
      /\ activeCount' = Cardinality({t \in Tasks : status'[t] \in Running})
      /\ ScheduledByLoop' = Len(queue') + activeCount'
                              + Cardinality({t \in Tasks : status'[t] \in Settled})
      /\ \A t \in Tasks :
           /\ status[t] # "unscheduled" => (status'[t] # "unscheduled" /\ schedAt'[t] = schedAt[t])
           /\ status[t] \in Running \cup Settled => status'[t] # "queued"
           /\ status[t] \in Settled => status'[t] = status[t]
           /\ fetches'[t] <= 1
      /\ (\E t \in Tasks : status'[t] = "queued") => activeCount' = concurrencyLimit
      /\ pc' = "done" => Cardinality({t \in Tasks : status'[t] \in Settled}) = N
    ]_vars

\* normal return after a run in which tasks had to queue and one was skipped
C18_Witness ==
  /\ pc = "done"
  /\ Cardinality({t \in Tasks : status[t] \in Settled}) = N
  /\ \E t \in Tasks : status[t] = "skipped"
  /\ \E t \in Tasks : status[t] = "failed"

====
